---- MODULE Spec2Model ----
(***************************************************************************)
(* State-machine model of shazam.py: the batch driver (process_downloads), *)
(* the per-file orchestrator (process_audio_file), the windower            *)
(* (segment_audio), the recognition sequencer (_recognize_segments) and    *)
(* the retry policy (get_name).  The program is single threaded apart from *)
(* the export pool, so one program counter `pc` walks the call stack; an   *)
(* action is the code between two suspension points (an await, a file      *)
(* write, a collaborator call).                                            *)
(***************************************************************************)
EXTENDS Integers, Sequences, FiniteSets, TLC

----------------------------------------------------------------------------
(* Bounds of the model *)

\* most mp3 files the listing of the downloads directory returns
MaxFiles == 2
\* longest decoded buffer, counted in half windows (30 s)
MaxHalfWindows == 5
\* largest max_retries tried when get_name is driven on its own
MaxRetries == 5
\* most operations on files (writes to the output file, decodings, exports)
\* that fail in one run
MaxIoErrors == 1
\* slices decoded in one run, over all of its files
MaxSlices == 3
\* export tasks of one file that may raise
MaxExportFailures == 1
\* longest list of segments whose recognition is driven on its own
MaxSegments == 3
\* slices of the buffer whose export pool is driven task by task
MaxExportSegments == 10
\* longest buffer and longest window tried when the slicing is driven on its
\* own (besides the 150 000 ms / 60 000 ms case)
MaxDuration == 12
MaxWindow == 5

----------------------------------------------------------------------------
(* Program constants *)

\* SEGMENT_LENGTH = 60 * 1000
SEGMENT_LENGTH == 60000
\* get_name(..., max_retries: int = 3)
DefaultMaxRetries == 3
\* segment_audio(audio_file, output_directory="tmp", num_threads=4)
NumThreads == 4
\* await asyncio.sleep(2) of get_name
BackoffDelay == 2

NotFound == "Not found"
None == "None"
\* a payload or a result that is not there (yet): a record, like the
\* payloads and results it stands in for
NoValue == [kind |-> "none"]

\* os.path.basename(audio_file) of the i-th listed file
Basename(i) == "set" \o ToString(i) \o ".mp3"

----------------------------------------------------------------------------
(* The recognition service (shazamio) as the environment sees it *)

\* payloads shazam.recognize may return: two with a full track, one without
\* a 'track' key, one whose track has no 'title'
Payloads ==
    { [track |-> [title |-> "Blue", subtitle |-> "Joni"]],
      [track |-> [title |-> "B", subtitle |-> "A"]],
      [matches |-> "none"],
      [track |-> [subtitle |-> "Joni"]] }

\* what one await of shazam.recognize can do: return a payload or raise
ServiceOutcomes ==
    { [kind |-> "return", data |-> p] : p \in Payloads }
      \cup { [kind |-> "raise", exc |-> "ClientError"] }

\* the service identified a track: the payload carries a track with a
\* title and a subtitle
Identified(out) ==
    /\ out.kind = "return"
    /\ "track" \in DOMAIN out.data
    /\ {"title", "subtitle"} \subseteq DOMAIN out.data.track

VARIABLES
    pc,             \* position of the single thread of control
    command,        \* main: args.command
    url_or_file,    \* main: args.url_or_file, until main has consumed it
    downloader_calls, \* ghost: calls of the yt-dlp downloader (network)
    must_reject,    \* ghost: the argument is a URL the program has to reject
    audio_len,      \* segment_audio: len(audio) in ms
    window,         \* segment_audio: the window length in ms
    segments,       \* segment_audio: the list of slices
    exit_status,    \* None while running, else the process's exit status
    sink,           \* lines of the output file, each [text, by]; `by` (the
                    \* file index that wrote it, 0 for the driver) is ghost
    mp3_files,      \* process_downloads: the listed files, by index
    file_index,     \* process_downloads: idx of the enumerate loop
    tmp_dirs,       \* scratch directories that exist, by file index
    tmp_dir_files,  \* artifact numbers present in the current scratch dir
    tmp_files,      \* process_audio_file: sorted listing
    total_segments, \* process_audio_file: len(tmp_files)
    idx,            \* _recognize_segments: idx of the enumerate loop
    unique_tracks,  \* process_audio_file: the TrackSet, in order
    seen_tracks,    \* process_audio_file: the membership set
    max_retries,    \* get_name: parameter
    attempt,        \* get_name: loop variable
    data,           \* get_name: last payload / exception of the service
    gn_result,      \* get_name: how the call ended, NoValue while it runs
    calls,          \* ghost: service calls made by the current get_name
    attempt_log,    \* ghost: per call of the current get_name, whether the
                    \* service identified a track
    in_flight,      \* ghost: segments whose service call is awaited
    last_called,    \* ghost: highest segment of this file a call was sent for
    recognized,     \* ghost: tracks get_name returned for this file, in order
    write_failed,   \* ghost: the files during which a write to the sink failed
    io_errors,      \* ghost: number of writes, decodings and exports that
                    \* failed
    tracklists,     \* the "--- Tracklist ---" summaries logged, by file
    futures,        \* segment_audio: the state of each submitted export task
    waiting_on,     \* segment_audio: the future whose result() is awaited
    artifacts,      \* ghost: the slice written to each artifact, by number
    listing,        \* process_audio_file: os.listdir(tmp_dir) as returned
    decode_failed,  \* ghost: the files whose decoding raised
    slices_decoded, \* ghost: number of slices decoded in this run
    export_failed,  \* ghost: the segments of this file whose export raised
    invoked,        \* ghost: the calls of process_audio_file, in order
    backoffs,       \* ghost: the backoff sleeps of the current get_name
    pacing_delays,  \* ghost: pacing sleeps of the current recognition run
    progress,       \* ghost: the progress lines logged for this file
    service_calls,  \* ghost: the service calls made for each segment of the
                    \* list whose calls are counted, by position; no
                    \* segment is counted in a run of the whole program
    caught          \* ghost: the except of the loop body caught an exception
                    \* while the current segment was processed

vars == << pc, command, url_or_file, downloader_calls, must_reject,
           audio_len, window, segments, exit_status, sink, mp3_files, file_index, tmp_dirs,
           tmp_dir_files, tmp_files, total_segments, idx, unique_tracks,
           seen_tracks, max_retries, attempt, data, gn_result, calls,
           attempt_log, in_flight, last_called, service_calls, recognized,
           write_failed,
           io_errors, tracklists, futures, waiting_on, artifacts, listing,
           decode_failed, slices_decoded, export_failed, invoked, backoffs, pacing_delays,
           progress, caught >>

segVars == << audio_len, window, segments, futures, waiting_on, artifacts >>
mainVars == << command, url_or_file, downloader_calls, must_reject, invoked,
              segVars >>
driverVars == << mainVars, exit_status, mp3_files, file_index >>
fileVars == << tmp_dirs, tmp_dir_files, tmp_files, total_segments, listing,
              decode_failed, export_failed,
                    slices_decoded >>
trackVars == << unique_tracks, seen_tracks, recognized, tracklists >>
sinkVars == << sink, write_failed, io_errors >>
loopVars == << idx, pacing_delays, progress, caught >>
gnVars == << max_retries, attempt, data, gn_result, calls, attempt_log,
            in_flight, last_called, service_calls, backoffs >>

\* the state of the export pool, the listing and the ghost logs before
\* anything has run
InitLogs ==
    /\ futures = << >>
    /\ waiting_on = 0
    /\ artifacts = << >>
    /\ listing = << >>
    /\ decode_failed = {}
    /\ slices_decoded = 0
    /\ export_failed = {}
    /\ invoked = << >>
    /\ backoffs = << >>
    /\ pacing_delays = 0
    /\ progress = << >>
    /\ caught = FALSE
    /\ service_calls = << >>

----------------------------------------------------------------------------
(* get_name: the retry policy around one recognizer call *)

\* result = f"{subtitle} - {title}"
Canonical(track) == track.subtitle \o " - " \o track.title

\* the body of the try block for one service outcome: the value it returns,
\* "notrack" for the `'track' not in data` branch, or the exception raised
\* (by the service, or KeyError by the subscripts)
TryBody(out) ==
    IF out.kind = "raise" THEN [kind |-> "exc", exc |-> out.exc]
    ELSE IF "track" \notin DOMAIN out.data THEN [kind |-> "notrack"]
    ELSE IF "title" \notin DOMAIN out.data.track
            \/ "subtitle" \notin DOMAIN out.data.track
         THEN [kind |-> "exc", exc |-> "KeyError"]
    ELSE [kind |-> "ok", result |-> Canonical(out.data.track)]

\* except Exception: every exception class the try body can raise
ExceptCatchesOnlyService(exc) == exc = "ClientError"
ExceptCatches(exc) == exc \in {"ClientError", "KeyError"}

\* await asyncio.sleep(2): the length of the sleep before attempt a + 1
BackoffLinear(a) == BackoffDelay * (a + 1)
Backoff(a) == BackoffDelay

\* if attempt < max_retries - 1: sleep and continue
RetriesLeftOffByOne(a, m) == a < m
RetriesLeft(a, m) == a < m - 1

\* entry of get_name: the for loop starts at attempt 0
GetNameEnter(m) ==
    /\ max_retries' = m
    /\ attempt' = 0
    /\ data' = NoValue
    /\ gn_result' = NoValue
    /\ calls' = 0
    /\ attempt_log' = << >>
    /\ backoffs' = << >>

\* one more call for the segment at position i of the list, when that
\* segment's calls are counted
CountCall(count, i) ==
    IF i \in DOMAIN count THEN [count EXCEPT ![i] = @ + 1] ELSE count

\* the call is sent but not awaited: get_name goes on without its outcome
GetNameCallNoAwait ==
    /\ pc = "gn_call"
    /\ pc' = "gn_return"
    /\ calls' = calls + 1
    /\ in_flight' = in_flight \cup {tmp_files[idx]}
    /\ last_called' = tmp_files[idx]
    /\ service_calls' = CountCall(service_calls, idx)
    /\ gn_result' = [kind |-> "value", value |-> NotFound]
    /\ UNCHANGED << max_retries, attempt, data, attempt_log, backoffs >>
    /\ UNCHANGED << driverVars, fileVars, trackVars, sinkVars, loopVars >>

\* data = await shazam.recognize(file_path): the call is sent
GetNameCall ==
    /\ pc = "gn_call"
    /\ pc' = "gn_await"
    /\ calls' = calls + 1
    /\ in_flight' = in_flight \cup {tmp_files[idx]}
    /\ last_called' = tmp_files[idx]
    /\ service_calls' = CountCall(service_calls, idx)
    /\ UNCHANGED << max_retries, attempt, data, gn_result, attempt_log, backoffs >>
    /\ UNCHANGED << driverVars, fileVars, trackVars, sinkVars, loopVars >>

\* the await resumes with the service's outcome; the coroutine runs to its
\* next suspension point (the backoff sleep) or to its return
GetNameResume ==
    /\ pc = "gn_await"
    /\ \E out \in ServiceOutcomes :
         LET r == TryBody(out) IN
         /\ data' = out
         /\ in_flight' = in_flight \ {tmp_files[idx]}
         /\ attempt_log' = Append(attempt_log, Identified(out))
         /\ IF r.kind = "ok"
            THEN /\ gn_result' = [kind |-> "value", value |-> r.result]
                 /\ pc' = "gn_return"
            ELSE IF r.kind = "exc" /\ ~ExceptCatches(r.exc)
            THEN /\ gn_result' = [kind |-> "raised", exc |-> r.exc]
                 /\ pc' = "gn_return"
            ELSE IF RetriesLeft(attempt, max_retries)
            THEN /\ gn_result' = gn_result
                 /\ pc' = "gn_sleep"
            ELSE /\ gn_result' = [kind |-> "value", value |-> NotFound]
                 /\ pc' = "gn_return"
    /\ UNCHANGED << max_retries, attempt, calls, last_called, service_calls,
                    backoffs >>
    /\ UNCHANGED << driverVars, fileVars, trackVars, sinkVars, loopVars >>

\* await asyncio.sleep(2) has elapsed; continue with the next attempt
GetNameBackoff ==
    /\ pc = "gn_sleep"
    /\ pc' = "gn_call"
    /\ attempt' = attempt + 1
    /\ backoffs' = Append(backoffs, Backoff(attempt))
    /\ UNCHANGED << max_retries, data, gn_result, calls, attempt_log,
                    in_flight, last_called, service_calls >>
    /\ UNCHANGED << driverVars, fileVars, trackVars, sinkVars, loopVars >>

GetNameNext == GetNameCall \/ GetNameResume \/ GetNameBackoff

----------------------------------------------------------------------------
(* get_name driven on its own, for every max_retries in 1..MaxRetries *)

InitRetry ==
    /\ pc = "gn_call"
    /\ command = "scan"
    /\ url_or_file = [kind |-> "missing"]
    /\ downloader_calls = 0
    /\ must_reject = FALSE
    /\ audio_len = 0
    /\ window = SEGMENT_LENGTH
    /\ segments = << >>
    /\ exit_status = None
    /\ sink = << >>
    /\ mp3_files = << >>
    /\ file_index = 0
    /\ tmp_dirs = {}
    /\ tmp_dir_files = {}
    /\ tmp_files = << 1 >>
    /\ total_segments = 1
    /\ idx = 1
    /\ unique_tracks = << >>
    /\ seen_tracks = {}
    /\ max_retries \in 1..MaxRetries
    /\ attempt = 0
    /\ data = NoValue
    /\ gn_result = NoValue
    /\ calls = 0
    /\ attempt_log = << >>
    /\ in_flight = {}
    /\ last_called = 0
    /\ recognized = << >>
    /\ write_failed = {}
    /\ io_errors = 0
    /\ tracklists = << >>
    /\ InitLogs

SpecRetry == InitRetry /\ [][GetNameNext]_vars

----------------------------------------------------------------------------
(* segment_audio: the windower *)

Min(a, b) == IF a < b THEN a ELSE b

\* audio[i:i + SEGMENT_LENGTH]: a slice stops at the end of the buffer
SliceStopPadded(i, D, W) == i + W
SliceStop(i, D, W) == Min(i + W, D)

\* [audio[i:i + W] for i in range(0, len(audio), W)], from offset i on:
\* the slices in list order, each [start, stop) in ms
RECURSIVE SlicesFrom(_, _, _)
SlicesFrom(i, D, W) ==
    IF i >= D THEN << >>
    ELSE << [start |-> i, stop |-> SliceStop(i, D, W)] >>
           \o SlicesFrom(i + W, D, W)

Slices(D, W) == SlicesFrom(0, D, W)

\* what AudioSegment.from_file can do: raise, when `errors` failures leave
\* room for one more in this run, or decode a buffer of len ms of which at
\* most `left` slices can be cut
Durations == { k * (SEGMENT_LENGTH \div 2) : k \in 0..MaxHalfWindows }
DecodeOutcomes(left, errors) ==
    (IF errors < MaxIoErrors THEN { [ok |-> FALSE, len |-> 0] } ELSE {})
    \cup { [ok |-> TRUE, len |-> d] :
             d \in { e \in Durations : Len(Slices(e, SEGMENT_LENGTH)) <= left } }

\* the export tasks that may raise, for one outcome of the decoding, when
\* `errors` failures have happened in the run so far
ExportFailures(dec, errors) ==
    IF dec.ok
    THEN { F \in SUBSET (1..Len(Slices(dec.len, SEGMENT_LENGTH))) :
             /\ Cardinality(F) <= MaxExportFailures
             /\ errors + Cardinality(F) <= MaxIoErrors }
    ELSE { {} }

\* the artifacts "<idx>.mp3" segment_audio leaves in the directory: none
\* when decoding raised, else one per slice whose export did not raise,
\* numbered by enumerate from 1
ExportedStale(dec, failed) ==
    IF dec.ok THEN (1..Len(Slices(dec.len, SEGMENT_LENGTH))) \ failed ELSE {1}
ExportedUntilFailure(dec, failed) ==
    IF dec.ok
    THEN { i \in 1..Len(Slices(dec.len, SEGMENT_LENGTH)) :
             \A k \in failed : i < k }
    ELSE {}
Exported(dec, failed) ==
    IF dec.ok THEN (1..Len(Slices(dec.len, SEGMENT_LENGTH))) \ failed ELSE {}

\* what the exports that raised leave in the directory: seg.export(path)
\* raises before or after it has created the file at path, so each leaves
\* nothing or an incomplete "<idx>.mp3"
ExportResidues(failed) == SUBSET failed

\* segment_audio's list comprehension, applied to one decoded buffer
SliceAudio ==
    /\ pc = "seg_slice"
    /\ pc' = "seg_done"
    /\ segments' = Slices(audio_len, window)
    /\ UNCHANGED << command, url_or_file, downloader_calls, must_reject,
                    invoked, audio_len, window, futures, waiting_on, artifacts,
                    exit_status, mp3_files, file_index >>
    /\ UNCHANGED << fileVars, trackVars, sinkVars, loopVars, gnVars >>

----------------------------------------------------------------------------
(* The output file *)

Line(text, f) == [text |-> text, by |-> f]

\* f"===== {os.path.basename(audio_file)} ======\n"
HeaderText(f) == "===== " \o Basename(f) \o " ======"

\* open(filename, "a") and write one line: the line is appended when the
\* write succeeds, the file is left as it was when it raises OSError
AppendLineTruncating(file, text, f, ok) ==
    IF ok THEN << Line(text, f) >> ELSE file
AppendLine(file, text, f, ok) ==
    IF ok THEN Append(file, Line(text, f)) ELSE file

\* what a write to the output file can still do in this run
WriteOks == IF io_errors < MaxIoErrors THEN BOOLEAN ELSE {TRUE}
TrackWrites ==
    IF io_errors < MaxIoErrors THEN {"ok", "oserror", "raise"} ELSE {"ok"}

\* write_to_file(data, filename): appends data unless it is "Not found"
WriteToFileInverted(file, text, f, ok) ==
    IF text = NotFound THEN AppendLine(file, text, f, ok) ELSE file
WriteToFile(file, text, f, ok) ==
    IF text # NotFound THEN AppendLine(file, text, f, ok) ELSE file

----------------------------------------------------------------------------
(* _recognize_segments: the recognition sequencer *)

\* if track_name != "Not found" and track_name not in seen_tracks
IsNewTrackNoSentinelTest(track_name, seen) == track_name \notin seen
IsNewTrackNoSeenTest(track_name, seen) == track_name # NotFound
IsNewTrack(track_name, seen) ==
    track_name # NotFound /\ track_name \notin seen

\* the with block of process_audio_file is left by an exception:
\* TemporaryDirectory.__exit__ removes the directory before it goes on
TmpDirsAfterRaiseLeak(dirs, f) == dirs
TmpDirsAfterRaise(dirs, f) == dirs \ {f}

\* shazam = Shazam(); the constructor may raise, which leaves asyncio.run
\* and process_audio_file through the with block
RecognizeStart ==
    /\ pc = "rs_init"
    /\ listing' = << >>
    /\ \E ok \in BOOLEAN :
         IF ok
         THEN /\ pc' = "rs_loop"
              /\ idx' = 0
              /\ UNCHANGED << tmp_dirs, tmp_dir_files, exit_status >>
         ELSE /\ pc' = "exit"
              /\ exit_status' = 1
              /\ idx' = idx
              /\ tmp_dirs' = TmpDirsAfterRaise(tmp_dirs, file_index)
              /\ tmp_dir_files' = {}
    /\ UNCHANGED << tmp_files, total_segments, decode_failed, export_failed,
                    slices_decoded >>
    /\ UNCHANGED << pacing_delays, progress, caught >>
    /\ UNCHANGED << mainVars, mp3_files, file_index, trackVars, sinkVars, gnVars >>

\* for idx, file_name in enumerate(tmp_files, start=1): the next segment is
\* handed to get_name, or the loop (and asyncio.run) ends
RecognizeLoop ==
    /\ pc = "rs_loop"
    /\ IF idx < Len(tmp_files)
       THEN /\ idx' = idx + 1
            /\ pc' = "gn_call"
            /\ GetNameEnter(DefaultMaxRetries)
            /\ UNCHANGED << in_flight, last_called, service_calls >>
       ELSE /\ pc' = "paf_cleanup"
            /\ UNCHANGED << idx, gnVars >>
    /\ caught' = FALSE
    /\ UNCHANGED << pacing_delays, progress >>
    /\ UNCHANGED << driverVars, fileVars, trackVars, sinkVars >>

\* logger.info(f"[{idx}/{total_segments}]: {track_name}"): the index and the
\* total of the line, and (ghost) the artifact number of the segment the
\* line is about
ProgressLineByArtifact(i, total, file_name) ==
    [ index |-> file_name, total |-> total, segment |-> file_name ]
ProgressLine(i, total, file_name) ==
    [ index |-> i, total |-> total, segment |-> file_name ]

\* where the loop body goes after the write of a track, w being what the
\* write did ("ok" also when nothing had to be written): an exception
\* that leaves write_to_file is caught by the except of the loop body,
\* whose continue starts the next iteration; else the pacing sleep follows
\* unless this was the last segment
AfterSegmentRetry(w, i, total) ==
    IF w = "raise" THEN "gn_call"
    ELSE IF i < total THEN "rs_pace" ELSE "rs_loop"
AfterSegmentStopOnError(w, i, total) ==
    IF w # "ok" THEN "paf_cleanup"
    ELSE IF i < total THEN "rs_pace" ELSE "rs_loop"
AfterSegment(w, i, total) ==
    IF w = "raise" THEN "rs_loop"
    ELSE IF i < total THEN "rs_pace" ELSE "rs_loop"

\* get_name has returned: the progress line, the TrackSet update and the
\* write of a new track; then the pacing decision.  A write that raises
\* something other than OSError (w = "raise") leaves write_to_file and is
\* caught by the except of the loop body, which continues
RecordResult ==
    /\ pc = "gn_return"
    /\ IF gn_result.kind = "raised"
       THEN /\ pc' = "rs_loop"
            /\ caught' = TRUE
            /\ UNCHANGED << unique_tracks, seen_tracks, recognized, sinkVars,
                            progress >>
       ELSE LET track_name == gn_result.value IN
            /\ progress' = Append(progress,
                    ProgressLine(idx, total_segments, tmp_files[idx]))
            /\ recognized' = IF track_name # NotFound
                             THEN Append(recognized, track_name)
                             ELSE recognized
            /\ IF IsNewTrack(track_name, seen_tracks)
               THEN /\ seen_tracks' = seen_tracks \cup {track_name}
                    /\ unique_tracks' = Append(unique_tracks, track_name)
                    /\ \E w \in TrackWrites :
                         /\ sink' = WriteToFile(sink, track_name, file_index, w = "ok")
                         /\ write_failed' = IF w = "ok" THEN write_failed
                                            ELSE write_failed \cup {file_index}
                         /\ io_errors' = IF w = "ok" THEN io_errors
                                         ELSE io_errors + 1
                         /\ caught' = (w = "raise")
                         /\ pc' = AfterSegment(w, idx, total_segments)
               ELSE /\ UNCHANGED << unique_tracks, seen_tracks, sinkVars >>
                    /\ caught' = FALSE
                    /\ pc' = AfterSegment("ok", idx, total_segments)
    /\ max_retries' = DefaultMaxRetries
    /\ attempt' = 0
    /\ data' = NoValue
    /\ gn_result' = NoValue
    /\ calls' = 0
    /\ attempt_log' = << >>
    /\ backoffs' = << >>
    /\ UNCHANGED << in_flight, last_called, service_calls, tracklists, idx,
                    pacing_delays >>
    /\ UNCHANGED << driverVars, fileVars >>

\* await asyncio.sleep(0.5) has elapsed
PacingDelay ==
    /\ pc = "rs_pace"
    /\ pc' = "rs_loop"
    /\ pacing_delays' = pacing_delays + 1
    /\ UNCHANGED << idx, progress, caught >>
    /\ UNCHANGED << driverVars, fileVars, trackVars, sinkVars, gnVars >>

----------------------------------------------------------------------------
(* process_audio_file: the per-file orchestrator *)

\* os.path.join(output_directory, f"{idx}.mp3"): the name of artifact idx
ArtifactName(i) == ToString(i) \o ".mp3"

\* the names a scratch directory can hold
MaxArtifact == MaxExportSegments + MaxHalfWindows
NameTable == [ n \in 1..MaxArtifact |-> ArtifactName(n) ]

\* int(os.path.splitext(x)[0]): the number a name starts with
SortKey(name) == CHOOSE n \in DOMAIN NameTable : NameTable[n] = name

\* the decimal digits of n, and the order of strings of digits
RECURSIVE Digits(_)
Digits(n) == IF n < 10 THEN << n >> ELSE Append(Digits(n \div 10), n % 10)
LexLess(a, b) ==
    \E k \in 1..(Len(a) + 1) :
        /\ k <= Len(b)
        /\ \A j \in 1..(k - 1) : a[j] = b[j]
        /\ k = Len(a) + 1 \/ a[k] < b[k]

\* the order sorted() puts two names in: by the key, not by the name
KeyLessLexical(a, b) == LexLess(Digits(SortKey(a)), Digits(SortKey(b)))
KeyLess(a, b) == SortKey(a) < SortKey(b)

\* sorted(names, key=...): a stable sort by the key
RECURSIVE InsertByKey(_, _)
InsertByKey(x, q) ==
    IF q = << >> THEN << x >>
    ELSE IF KeyLess(x, Head(q)) THEN << x >> \o q
    ELSE << Head(q) >> \o InsertByKey(x, Tail(q))
RECURSIVE SortedByKey(_)
SortedByKey(names) ==
    IF names = << >> THEN << >>
    ELSE InsertByKey(names[Len(names)],
                     SortedByKey(SubSeq(names, 1, Len(names) - 1)))

\* the orders os.listdir may return a directory in: every rotation of the
\* ascending, the descending and the lexical order of its artifact numbers
\* (all orders of a directory of up to three artifacts)
RECURSIVE SortedDescending(_)
SortedDescending(S) ==
    IF S = {} THEN << >>
    ELSE LET m == CHOOSE x \in S : \A y \in S : x >= y
         IN << m >> \o SortedDescending(S \ {m})
RECURSIVE SortedByInt(_)
SortedByInt(S) ==
    IF S = {} THEN << >>
    ELSE LET m == CHOOSE x \in S : \A y \in S : x <= y
         IN << m >> \o SortedByInt(S \ {m})
RECURSIVE SortedLexical(_)
SortedLexical(S) ==
    IF S = {} THEN << >>
    ELSE LET m == CHOOSE x \in S :
                    \A y \in S \ {x} : LexLess(Digits(x), Digits(y))
         IN << m >> \o SortedLexical(S \ {m})
Rotate(q, k) == [ i \in 1..Len(q) |-> q[((i + k - 1) % Len(q)) + 1] ]
Listings(S) ==
    IF S = {} THEN { << >> }
    ELSE { [ i \in 1..Cardinality(S) |-> ArtifactName(Rotate(b, k)[i]) ] :
             b \in { SortedByInt(S), SortedDescending(S), SortedLexical(S) },
             k \in 0..(Cardinality(S) - 1) }

\* where process_audio_file returns to: the loop of process_downloads, the
\* loop of the download command, or the end of the recognize command
ReturnPc ==
    IF command = "scan" THEN "pd_loop"
    ELSE IF command = "download" THEN "dl_loop"
    ELSE "rec_done"

\* the header line is appended; when that raises OSError the function
\* logs and returns
WriteHeader ==
    /\ pc = "paf_header"
    /\ \E ok \in WriteOks :
         /\ sink' = AppendLine(sink, HeaderText(file_index), file_index, ok)
         /\ write_failed' = IF ok THEN write_failed
                            ELSE write_failed \cup {file_index}
         /\ io_errors' = IF ok THEN io_errors ELSE io_errors + 1
         /\ pc' = IF ok THEN "paf_tmpdir" ELSE ReturnPc
    /\ UNCHANGED << driverVars, fileVars, trackVars, loopVars, gnVars >>

\* with tempfile.TemporaryDirectory(prefix="shazam_") as tmp_dir
AcquireTmpDir ==
    /\ pc = "paf_tmpdir"
    /\ pc' = "paf_segment"
    /\ tmp_dirs' = tmp_dirs \cup {file_index}
    /\ tmp_dir_files' = {}
    /\ UNCHANGED << tmp_files, total_segments, listing, decode_failed,
                    export_failed,
                    slices_decoded >>
    /\ UNCHANGED << driverVars, trackVars, sinkVars, loopVars, gnVars >>

\* the futures of segment_audio once the pool has shut down: one per slice,
\* done or raised
FuturesAfter(dec, failed) ==
    IF dec.ok
    THEN [ i \in 1..Len(Slices(dec.len, SEGMENT_LENGTH)) |->
             IF i \in failed THEN "raised" ELSE "done" ]
    ELSE << >>

\* segment_audio(audio_file, tmp_dir), from its call to its return: the
\* decoding, the slicing and the export pool; an exception of the decoding
\* or of an export is caught and logged inside, and the function returns
\* once the pool has shut down
SegmentAudio ==
    /\ pc = "paf_segment"
    /\ pc' = "paf_list"
    /\ \E dec \in DecodeOutcomes(MaxSlices - slices_decoded, io_errors) :
         \E failed \in ExportFailures(dec, io_errors) :
            /\ \E left \in ExportResidues(failed) :
                 tmp_dir_files' = Exported(dec, failed) \cup left
            /\ futures' = FuturesAfter(dec, failed)
            /\ slices_decoded' = slices_decoded + Len(Slices(dec.len, SEGMENT_LENGTH))
            /\ export_failed' = failed
            /\ io_errors' = io_errors + Cardinality(failed)
                             + (IF dec.ok THEN 0 ELSE 1)
            /\ decode_failed' = IF dec.ok THEN decode_failed
                                ELSE decode_failed \cup {file_index}
    /\ UNCHANGED << tmp_dirs, tmp_files, total_segments, listing >>
    /\ UNCHANGED << sink, write_failed >>
    /\ UNCHANGED << command, url_or_file, downloader_calls, must_reject, invoked,
                    audio_len, window, segments, waiting_on, artifacts,
                    exit_status, mp3_files, file_index >>
    /\ UNCHANGED << trackVars, loopVars, gnVars >>

\* os.listdir(tmp_dir): the names in some order; it may raise, which
\* leaves the with block
ListDirectory ==
    /\ pc = "paf_list"
    /\ \E ok \in BOOLEAN :
         IF ok
         THEN /\ listing' \in Listings(tmp_dir_files)
              /\ pc' = "paf_sort"
              /\ UNCHANGED << tmp_dirs, tmp_dir_files, exit_status >>
         ELSE /\ pc' = "exit"
              /\ exit_status' = 1
              /\ tmp_dirs' = TmpDirsAfterRaise(tmp_dirs, file_index)
              /\ tmp_dir_files' = {}
              /\ listing' = listing
    /\ UNCHANGED << tmp_files, total_segments, decode_failed, export_failed,
                    slices_decoded >>
    /\ UNCHANGED << mainVars, mp3_files, file_index, trackVars, sinkVars,
                    loopVars, gnVars >>

\* tmp_files = sorted(..., key=...); total_segments = len(tmp_files).
\* tmp_files holds each name by the number it starts with
ListSegments ==
    /\ pc = "paf_sort"
    /\ pc' = "rs_init"
    /\ LET sorted == SortedByKey(listing) IN
         /\ tmp_files' = [ i \in 1..Len(sorted) |-> SortKey(sorted[i]) ]
         /\ total_segments' = Len(sorted)
    /\ last_called' = 0
    /\ service_calls' = service_calls
    /\ UNCHANGED << tmp_dirs, tmp_dir_files, listing, decode_failed,
                    export_failed,
                    slices_decoded >>
    /\ UNCHANGED << max_retries, attempt, data, gn_result, calls, attempt_log,
                    in_flight, backoffs >>
    /\ UNCHANGED << driverVars, trackVars, sinkVars, loopVars >>

\* the with block ends normally: the scratch directory is removed
ReleaseTmpDir ==
    /\ pc = "paf_cleanup"
    /\ pc' = "paf_blank"
    /\ tmp_dirs' = tmp_dirs \ {file_index}
    /\ tmp_dir_files' = {}
    /\ UNCHANGED << tmp_files, total_segments, listing, decode_failed,
                    export_failed,
                    slices_decoded >>
    /\ UNCHANGED << driverVars, trackVars, sinkVars, loopVars, gnVars >>

\* the empty line after the file; an OSError is logged and ignored
WriteBlank ==
    /\ pc = "paf_blank"
    /\ pc' = "paf_summary"
    /\ \E ok \in WriteOks :
         /\ sink' = AppendLine(sink, "", file_index, ok)
         /\ write_failed' = IF ok THEN write_failed
                            ELSE write_failed \cup {file_index}
         /\ io_errors' = IF ok THEN io_errors ELSE io_errors + 1
    /\ UNCHANGED << driverVars, fileVars, trackVars, loopVars, gnVars >>

\* the tracklist of the file is logged and process_audio_file returns
Summary ==
    /\ pc = "paf_summary"
    /\ pc' = ReturnPc
    /\ tracklists' = tracklists @@ (file_index :> unique_tracks)
    /\ unique_tracks' = << >>
    /\ seen_tracks' = {}
    /\ recognized' = << >>
    /\ tmp_files' = << >>
    /\ total_segments' = 0
    /\ idx' = 0
    /\ last_called' = 0
    /\ service_calls' = service_calls
    /\ export_failed' = {}
    /\ futures' = << >>
    /\ pacing_delays' = 0
    /\ progress' = << >>
    /\ caught' = FALSE
    /\ UNCHANGED << tmp_dirs, tmp_dir_files, listing, decode_failed,
                    slices_decoded >>
    /\ UNCHANGED << max_retries, attempt, data, gn_result, calls, attempt_log,
                    in_flight, backoffs >>
    /\ UNCHANGED << command, url_or_file, downloader_calls, must_reject, invoked,
                    audio_len, window, segments, waiting_on, artifacts,
                    exit_status, mp3_files, file_index >>
    /\ UNCHANGED sinkVars

----------------------------------------------------------------------------
(* process_downloads: the batch driver of the scan command *)

\* process_audio_file(full_path, output_filename, idx, total_files) inside
\* for idx, file_name in enumerate(mp3_files, start=1)
InvocationArgsFromZero(files, i) ==
    [ file |-> files[i], index |-> i - 1, total |-> Len(files) ]
InvocationArgs(files, i) ==
    [ file |-> files[i], index |-> i, total |-> Len(files) ]

BannerText == "===== Scan results for downloads directory ======"

\* mp3_files = [f for f in os.listdir(DOWNLOADS_DIR) if f.endswith('.mp3')]
ProcessDownloadsList ==
    /\ pc = "pd_list"
    /\ \E n \in 0..MaxFiles :
         /\ mp3_files' = [i \in 1..n |-> i]
         /\ IF n = 0
            THEN pc' = "exit" /\ exit_status' = 0
            ELSE pc' = "pd_open" /\ exit_status' = exit_status
    /\ UNCHANGED << mainVars, file_index >>
    /\ UNCHANGED << fileVars, trackVars, sinkVars, loopVars, gnVars >>

\* open(output_filename, "w") and the banner: the file is truncated when
\* the open succeeds; an OSError is logged and the function returns
ProcessDownloadsOpen ==
    /\ pc = "pd_open"
    /\ \E w \in {"ok", "open_raises", "write_raises"} :
         /\ sink' = IF w = "ok" THEN << Line(BannerText, 0), Line("", 0) >>
                    ELSE IF w = "write_raises" THEN << >>
                    ELSE sink
         /\ IF w = "ok"
            THEN pc' = "pd_loop" /\ exit_status' = exit_status
            ELSE pc' = "exit" /\ exit_status' = 0
    /\ UNCHANGED << mainVars, mp3_files, file_index, write_failed, io_errors >>
    /\ UNCHANGED << fileVars, trackVars, loopVars, gnVars >>

\* for idx, file_name in enumerate(mp3_files, start=1):
\*     process_audio_file(full_path, output_filename, idx, total_files)
ProcessDownloadsLoop ==
    /\ pc = "pd_loop"
    /\ IF file_index < Len(mp3_files)
       THEN /\ file_index' = file_index + 1
            /\ invoked' = Append(invoked, InvocationArgs(mp3_files, file_index + 1))
            /\ pc' = "paf_header"
            /\ exit_status' = exit_status
       ELSE /\ pc' = "exit"
            /\ exit_status' = 0
            /\ file_index' = file_index
            /\ invoked' = invoked
    /\ UNCHANGED << command, url_or_file, downloader_calls, must_reject, segVars >>
    /\ UNCHANGED << mp3_files, trackVars >>
    /\ UNCHANGED << fileVars, sinkVars, loopVars, gnVars >>

----------------------------------------------------------------------------
(* URLs and validate_url *)

\* the command line argument: a URL as typed (scheme and host), a path that
\* is no URL, or nothing
Schemes == {"http", "https", "HTTPS", "ftp"}
Hosts == {"www.youtube.com", "soundcloud.com", "youtu.be", "example.com"}
Urls == { [kind |-> "url", scheme |-> sc, host |-> h] : sc \in Schemes, h \in Hosts }
Arguments == Urls \cup { [kind |-> "path"], [kind |-> "missing"] }

ALLOWED_DOMAINS ==
    { "youtube.com", "www.youtube.com", "m.youtube.com", "youtu.be",
      "soundcloud.com", "www.soundcloud.com", "m.soundcloud.com" }

\* urlparse(url).scheme: the scheme in lower case
ParsedScheme(u) == IF u.scheme = "HTTPS" THEN "https" ELSE u.scheme

\* validate_url returns the url, or raises ValueError
ValidateUrlHostOnly(u) == u.host \in ALLOWED_DOMAINS
ValidateUrl(u) ==
    /\ ParsedScheme(u) \in {"http", "https"}
    /\ u.host \in ALLOWED_DOMAINS

\* audio_file.startswith('http://') or audio_file.startswith('https://')
StartsWithHttp(a) == a.kind = "url" /\ a.scheme \in {"http", "https"}

\* download_from_url after validation: the downloader chosen by host name
Downloader(u) ==
    IF u.host \in {"soundcloud.com", "www.soundcloud.com", "m.soundcloud.com"}
    THEN "soundcloud"
    ELSE IF u.host \in {"youtube.com", "www.youtube.com", "m.youtube.com", "youtu.be"}
    THEN "youtube"
    ELSE "none"

\* a URL the download command, or the recognize command in its URL branch,
\* must not act on: its scheme is not http/https (in any case of letters)
\* or its host is not one of the two providers' hosts
InvalidUrl(u) ==
    \/ u.scheme \notin {"http", "https", "HTTP", "HTTPS"}
    \/ u.host \notin { "youtube.com", "www.youtube.com", "m.youtube.com",
                        "youtu.be", "soundcloud.com", "www.soundcloud.com",
                        "m.soundcloud.com" }
MustReject(cmd, a) ==
    /\ a.kind = "url"
    /\ InvalidUrl(a)
    /\ cmd = "download" \/ (cmd = "recognize" /\ a.scheme \in {"http", "https"})

----------------------------------------------------------------------------
(* main *)

Consumed == [kind |-> "consumed"]

\* main up to the branch on the command: a missing argument of download or
\* recognize ends the process with status 1
MainDispatch ==
    /\ pc = "main"
    /\ IF command = "scan"
       THEN pc' = "pd_list" /\ exit_status' = exit_status
       ELSE IF url_or_file.kind = "missing"
       THEN pc' = "exit" /\ exit_status' = 1
       ELSE IF command = "download"
       THEN pc' = "dl_download" /\ exit_status' = exit_status
       ELSE IF StartsWithHttp(url_or_file)
       THEN pc' = "rec_validate" /\ exit_status' = exit_status
       ELSE pc' = "rec_local" /\ exit_status' = exit_status
    /\ UNCHANGED << mainVars, mp3_files, file_index >>
    /\ UNCHANGED << fileVars, trackVars, sinkVars, loopVars, gnVars >>

\* download_from_url(url): validate_url raises ValueError for a url that is
\* not allowed, which nothing on the way up catches (status 1); else the
\* downloader for the host is called and returns a title or None
DownloadFromUrl ==
    /\ pc \in {"dl_download", "rec_download"}
    /\ IF url_or_file.kind # "url" \/ ~ValidateUrl(url_or_file)
       THEN /\ pc' = "exit"
            /\ exit_status' = 1
            /\ UNCHANGED << url_or_file, downloader_calls >>
       ELSE /\ downloader_calls' =
                 IF Downloader(url_or_file) = "none" THEN downloader_calls
                 ELSE downloader_calls + 1
            /\ url_or_file' = Consumed
            /\ pc' = IF pc = "dl_download" THEN "dl_open" ELSE "rec_latest"
            /\ exit_status' = exit_status
    /\ UNCHANGED << command, must_reject, invoked, segVars, mp3_files, file_index >>
    /\ UNCHANGED << fileVars, trackVars, sinkVars, loopVars, gnVars >>

\* download: open(output_filename, "w") and the banner; OSError exits with 1
DownloadOpen ==
    /\ pc = "dl_open"
    /\ \E w \in {"ok", "open_raises", "write_raises"} :
         /\ sink' = IF w = "ok"
                    THEN << Line("===== Download Results ======", 0), Line("", 0) >>
                    ELSE IF w = "write_raises" THEN << >>
                    ELSE sink
         /\ IF w = "ok"
            THEN pc' = "dl_list" /\ exit_status' = exit_status
            ELSE pc' = "exit" /\ exit_status' = 1
    /\ UNCHANGED << mainVars, mp3_files, file_index, write_failed, io_errors >>
    /\ UNCHANGED << fileVars, trackVars, loopVars, gnVars >>

\* download: the mp3 files of the downloads directory; none is a warning
\* and a normal return
DownloadList ==
    /\ pc = "dl_list"
    /\ \E n \in 0..MaxFiles :
         /\ mp3_files' = [i \in 1..n |-> i]
         /\ IF n = 0
            THEN pc' = "exit" /\ exit_status' = 0
            ELSE pc' = "dl_loop" /\ exit_status' = exit_status
    /\ UNCHANGED << mainVars, file_index >>
    /\ UNCHANGED << fileVars, trackVars, sinkVars, loopVars, gnVars >>

\* download: for idx, file_name in enumerate(mp3_files, start=1):
\*     process_audio_file(full_path, output_filename, idx, total_files)
DownloadLoop ==
    /\ pc = "dl_loop"
    /\ IF file_index < Len(mp3_files)
       THEN /\ file_index' = file_index + 1
            /\ invoked' = Append(invoked, InvocationArgs(mp3_files, file_index + 1))
            /\ pc' = "paf_header"
            /\ exit_status' = exit_status
       ELSE /\ pc' = "exit"
            /\ exit_status' = 0
            /\ file_index' = file_index
            /\ invoked' = invoked
    /\ UNCHANGED << command, url_or_file, downloader_calls, must_reject, segVars >>
    /\ UNCHANGED << mp3_files, trackVars >>
    /\ UNCHANGED << fileVars, sinkVars, loopVars, gnVars >>

\* recognize <url>: validate_url; ValueError is caught and exits with 1
RecognizeValidate ==
    /\ pc = "rec_validate"
    /\ IF ValidateUrl(url_or_file)
       THEN pc' = "rec_download" /\ exit_status' = exit_status
       ELSE pc' = "exit" /\ exit_status' = 1
    /\ UNCHANGED << mainVars, mp3_files, file_index >>
    /\ UNCHANGED << fileVars, trackVars, sinkVars, loopVars, gnVars >>

\* recognize <url>: the newest mp3 of the downloads directory; none exits
\* with 1
RecognizeLatest ==
    /\ pc = "rec_latest"
    /\ \E n \in 0..MaxFiles :
         IF n = 0
         THEN pc' = "exit" /\ exit_status' = 1 /\ mp3_files' = mp3_files
         ELSE pc' = "rec_open" /\ exit_status' = exit_status
              /\ mp3_files' = << 1 >>
    /\ UNCHANGED << mainVars, file_index >>
    /\ UNCHANGED << fileVars, trackVars, sinkVars, loopVars, gnVars >>

\* recognize <file>: os.path.exists(audio_file); a missing file exits with 1
RecognizeLocal ==
    /\ pc = "rec_local"
    /\ \E exists \in BOOLEAN :
         IF exists
         THEN /\ pc' = "rec_open"
              /\ exit_status' = exit_status
              /\ mp3_files' = << 1 >>
         ELSE /\ pc' = "exit"
              /\ exit_status' = 1
              /\ mp3_files' = mp3_files
    /\ UNCHANGED << mainVars, file_index >>
    /\ UNCHANGED << fileVars, trackVars, sinkVars, loopVars, gnVars >>

\* recognize: open(output_filename, "w") and the banner, then
\* process_audio_file(file, output_filename, 1, 1); OSError exits with 1
RecognizeOpen ==
    /\ pc = "rec_open"
    /\ \E w \in {"ok", "open_raises", "write_raises"} :
         /\ sink' = IF w = "ok"
                    THEN << Line("===== Recognition Results ======", 0), Line("", 0) >>
                    ELSE IF w = "write_raises" THEN << >>
                    ELSE sink
         /\ IF w = "ok"
            THEN pc' = "paf_header" /\ exit_status' = exit_status
                 /\ file_index' = 1
                 /\ invoked' = Append(invoked, InvocationArgs(mp3_files, 1))
            ELSE pc' = "exit" /\ exit_status' = 1 /\ file_index' = file_index
                 /\ invoked' = invoked
    /\ UNCHANGED << command, url_or_file, downloader_calls, must_reject, segVars >>
    /\ UNCHANGED << mp3_files, write_failed, io_errors >>
    /\ UNCHANGED << fileVars, trackVars, loopVars, gnVars >>

\* recognize: process_audio_file has returned; main returns
RecognizeDone ==
    /\ pc = "rec_done"
    /\ pc' = "exit"
    /\ exit_status' = 0
    /\ UNCHANGED << mainVars, mp3_files, file_index >>
    /\ UNCHANGED << fileVars, trackVars, sinkVars, loopVars, gnVars >>

----------------------------------------------------------------------------
(* The program *)

StaleLine == Line("stale", 0)

Init ==
    /\ pc = "main"
    /\ command \in {"scan", "download", "recognize"}
    /\ url_or_file \in Arguments
    /\ command = "scan" => url_or_file.kind = "missing"
    /\ downloader_calls = 0
    /\ must_reject = MustReject(command, url_or_file)
    /\ audio_len = 0
    /\ window = SEGMENT_LENGTH
    /\ segments = << >>
    /\ exit_status = None
    /\ sink \in { << >>, << StaleLine >> }
    /\ mp3_files = << >>
    /\ file_index = 0
    /\ tmp_dirs = {}
    /\ tmp_dir_files = {}
    /\ tmp_files = << >>
    /\ total_segments = 0
    /\ idx = 0
    /\ unique_tracks = << >>
    /\ seen_tracks = {}
    /\ max_retries = DefaultMaxRetries
    /\ attempt = 0
    /\ data = NoValue
    /\ gn_result = NoValue
    /\ calls = 0
    /\ attempt_log = << >>
    /\ in_flight = {}
    /\ last_called = 0
    /\ recognized = << >>
    /\ write_failed = {}
    /\ io_errors = 0
    /\ tracklists = << >>
    /\ InitLogs

Next ==
    \/ MainDispatch
    \/ DownloadFromUrl
    \/ DownloadOpen
    \/ DownloadList
    \/ DownloadLoop
    \/ RecognizeValidate
    \/ RecognizeLatest
    \/ RecognizeLocal
    \/ RecognizeOpen
    \/ RecognizeDone
    \/ ProcessDownloadsList
    \/ ProcessDownloadsOpen
    \/ ProcessDownloadsLoop
    \/ WriteHeader
    \/ AcquireTmpDir
    \/ SegmentAudio
    \/ ListDirectory
    \/ ListSegments
    \/ RecognizeStart
    \/ RecognizeLoop
    \/ GetNameCall
    \/ GetNameResume
    \/ GetNameBackoff
    \/ RecordResult
    \/ PacingDelay
    \/ ReleaseTmpDir
    \/ WriteBlank
    \/ Summary

Spec == Init /\ [][Next]_vars

----------------------------------------------------------------------------
(* The slicing of segment_audio driven on its own, for every buffer length *)
(* in 0..MaxDuration and window in 1..MaxWindow, and for 150 000 / 60 000  *)

SliceInputs ==
    ((0..MaxDuration) \X (1..MaxWindow)) \cup { << 150000, SEGMENT_LENGTH >> }

InitSeg ==
    /\ pc = "seg_slice"
    /\ command = "scan"
    /\ url_or_file = [kind |-> "missing"]
    /\ downloader_calls = 0
    /\ must_reject = FALSE
    /\ \E in \in SliceInputs : audio_len = in[1] /\ window = in[2]
    /\ segments = << >>
    /\ exit_status = None
    /\ sink = << >>
    /\ mp3_files = << >>
    /\ file_index = 0
    /\ tmp_dirs = {}
    /\ tmp_dir_files = {}
    /\ tmp_files = << >>
    /\ total_segments = 0
    /\ idx = 0
    /\ unique_tracks = << >>
    /\ seen_tracks = {}
    /\ max_retries = DefaultMaxRetries
    /\ attempt = 0
    /\ data = NoValue
    /\ gn_result = NoValue
    /\ calls = 0
    /\ attempt_log = << >>
    /\ in_flight = {}
    /\ last_called = 0
    /\ recognized = << >>
    /\ write_failed = {}
    /\ io_errors = 0
    /\ tracklists = << >>
    /\ InitLogs

SpecSeg == InitSeg /\ [][SliceAudio]_vars

----------------------------------------------------------------------------
(* segment_audio with its export pool driven task by task, for the first   *)
(* file of a recognize run, up to the first service call                   *)

\* the buffers decoded: up to MaxExportSegments whole windows
ExportDurations == { k * SEGMENT_LENGTH : k \in 0..MaxExportSegments }

\* ThreadPoolExecutor.__exit__ is shutdown(wait=True): it returns when every
\* submitted task has completed or raised
PoolQuiescentOnFirstError(f) ==
    \/ \A i \in DOMAIN f : f[i] \in {"done", "raised"}
    \/ \E i \in DOMAIN f : f[i] = "raised"
PoolQuiescent(f) == \A i \in DOMAIN f : f[i] \in {"done", "raised"}

\* the tasks a worker thread is running
Running(f) == { i \in DOMAIN f : f[i] = "running" }

\* whether an export may still raise in this run
ExportOks ==
    IF Cardinality(export_failed) < MaxExportFailures THEN BOOLEAN ELSE {TRUE}

\* audio = AudioSegment.from_file(...); segments = [...]: the decoding
\* raises, which the except of segment_audio logs, or the slices are cut
ExportDecode ==
    /\ pc = "ex_decode"
    /\ \E ok \in BOOLEAN :
         IF ok
         THEN \E d \in ExportDurations :
                /\ audio_len' = d
                /\ segments' = Slices(d, SEGMENT_LENGTH)
                /\ futures' = [ i \in 1..Len(Slices(d, SEGMENT_LENGTH)) |-> "new" ]
                /\ pc' = "ex_submit"
                /\ decode_failed' = decode_failed
         ELSE /\ pc' = "paf_list"
              /\ decode_failed' = decode_failed \cup {file_index}
              /\ UNCHANGED << audio_len, segments, futures >>
    /\ UNCHANGED << tmp_dirs, tmp_dir_files, tmp_files, total_segments, listing,
                    slices_decoded, export_failed >>
    /\ UNCHANGED << command, url_or_file, downloader_calls, must_reject, invoked,
                    window, waiting_on, artifacts, exit_status, mp3_files,
                    file_index >>
    /\ UNCHANGED << trackVars, sinkVars, loopVars, gnVars >>

\* for idx, seg in enumerate(segments, start=1): executor.submit(seg.export,
\* ".../{idx}.mp3"); after the last one the loop over the futures starts
ExportSubmit ==
    /\ pc = "ex_submit"
    /\ IF \E i \in DOMAIN futures : futures[i] = "new"
       THEN LET i == CHOOSE j \in DOMAIN futures :
                        /\ futures[j] = "new"
                        /\ \A k \in 1..(j - 1) : futures[k] # "new"
            IN /\ futures' = [futures EXCEPT ![i] = "pending"]
               /\ UNCHANGED << pc, waiting_on >>
       ELSE /\ pc' = "ex_result"
            /\ waiting_on' = 1
            /\ futures' = futures
    /\ UNCHANGED << command, url_or_file, downloader_calls, must_reject, invoked,
                    audio_len, window, segments, artifacts, exit_status,
                    mp3_files, file_index >>
    /\ UNCHANGED << fileVars, trackVars, sinkVars, loopVars, gnVars >>

\* an idle worker thread (there are at most num_threads) takes the oldest
\* task of the queue
WorkerStart ==
    /\ Cardinality(Running(futures)) < NumThreads
    /\ \E i \in DOMAIN futures :
         /\ futures[i] = "pending"
         /\ \A k \in 1..(i - 1) : futures[k] # "pending"
         /\ futures' = [futures EXCEPT ![i] = "running"]
    /\ UNCHANGED << command, url_or_file, downloader_calls, must_reject, invoked,
                    audio_len, window, segments, waiting_on, artifacts,
                    exit_status, mp3_files, file_index >>
    /\ UNCHANGED << pc, fileVars, trackVars, sinkVars, loopVars, gnVars >>

\* seg.export(path, format="mp3") ends in a worker thread: the artifact is
\* in the directory, or the export raised and left nothing or an incomplete
\* file of that name
WorkerFinish ==
    /\ \E i \in Running(futures) :
         \E ok \in ExportOks :
            IF ok
            THEN /\ futures' = [futures EXCEPT ![i] = "done"]
                 /\ tmp_dir_files' = tmp_dir_files \cup {i}
                 /\ artifacts' = artifacts @@ (i :> segments[i])
                 /\ export_failed' = export_failed
            ELSE /\ futures' = [futures EXCEPT ![i] = "raised"]
                 /\ export_failed' = export_failed \cup {i}
                 /\ \E left \in ExportResidues({i}) :
                      tmp_dir_files' = tmp_dir_files \cup left
                 /\ UNCHANGED artifacts
    /\ UNCHANGED << tmp_dirs, tmp_files, total_segments, listing, decode_failed,
                    slices_decoded >>
    /\ UNCHANGED << command, url_or_file, downloader_calls, must_reject, invoked,
                    audio_len, window, segments, waiting_on, exit_status,
                    mp3_files, file_index >>
    /\ UNCHANGED << pc, trackVars, sinkVars, loopVars, gnVars >>

\* for future in futures: future.result() blocks until that task has ended
\* and re-raises what it raised, which leaves the loop and the with block
ExportResult ==
    /\ pc = "ex_result"
    /\ IF waiting_on > Len(futures)
       THEN /\ pc' = "ex_shutdown"
            /\ waiting_on' = waiting_on
       ELSE /\ futures[waiting_on] \in {"done", "raised"}
            /\ IF futures[waiting_on] = "done"
               THEN /\ waiting_on' = waiting_on + 1
                    /\ pc' = pc
               ELSE /\ waiting_on' = waiting_on
                    /\ pc' = "ex_shutdown"
    /\ UNCHANGED << command, url_or_file, downloader_calls, must_reject, invoked,
                    audio_len, window, segments, futures, artifacts,
                    exit_status, mp3_files, file_index >>
    /\ UNCHANGED << fileVars, trackVars, sinkVars, loopVars, gnVars >>

\* the with block of the executor ends, normally or by the exception of a
\* result: __exit__ waits for the pool; then the except logs the exception
\* if there is one and segment_audio returns
ExportShutdown ==
    /\ pc = "ex_shutdown"
    /\ PoolQuiescent(futures)
    /\ pc' = "paf_list"
    /\ waiting_on' = 0
    /\ UNCHANGED << command, url_or_file, downloader_calls, must_reject, invoked,
                    audio_len, window, segments, futures, artifacts,
                    exit_status, mp3_files, file_index >>
    /\ UNCHANGED << fileVars, trackVars, sinkVars, loopVars, gnVars >>

\* process_audio_file(file, output, 1, 1) of `recognize <file>` at its call
\* of segment_audio: banner and header are written, the scratch directory
\* exists and is empty
InitExport ==
    /\ pc = "ex_decode"
    /\ command = "recognize"
    /\ url_or_file = [kind |-> "path"]
    /\ downloader_calls = 0
    /\ must_reject = FALSE
    /\ audio_len = 0
    /\ window = SEGMENT_LENGTH
    /\ segments = << >>
    /\ exit_status = None
    /\ sink = << Line("===== Recognition Results ======", 0), Line("", 0),
                 Line(HeaderText(1), 1) >>
    /\ mp3_files = << 1 >>
    /\ file_index = 1
    /\ tmp_dirs = {1}
    /\ tmp_dir_files = {}
    /\ tmp_files = << >>
    /\ total_segments = 0
    /\ idx = 0
    /\ unique_tracks = << >>
    /\ seen_tracks = {}
    /\ max_retries = DefaultMaxRetries
    /\ attempt = 0
    /\ data = NoValue
    /\ gn_result = NoValue
    /\ calls = 0
    /\ attempt_log = << >>
    /\ in_flight = {}
    /\ last_called = 0
    /\ recognized = << >>
    /\ write_failed = {}
    /\ io_errors = 0
    /\ tracklists = << >>
    /\ futures = << >>
    /\ waiting_on = 0
    /\ artifacts = << >>
    /\ listing = << >>
    /\ decode_failed = {}
    /\ slices_decoded = 0
    /\ export_failed = {}
    /\ invoked = << InvocationArgs(<< 1 >>, 1) >>
    /\ backoffs = << >>
    /\ pacing_delays = 0
    /\ progress = << >>
    /\ caught = FALSE
    /\ service_calls = << >>

NextExport ==
    \/ ExportDecode
    \/ ExportSubmit
    \/ WorkerStart
    \/ WorkerFinish
    \/ ExportResult
    \/ ExportShutdown
    \/ ListDirectory
    \/ ListSegments
    \/ RecognizeStart
    \/ RecognizeLoop
    \/ GetNameCall

SpecExport == InitExport /\ [][NextExport]_vars

----------------------------------------------------------------------------
(* _recognize_segments driven on its own, for every list of 0..MaxSegments *)
(* segments, with the calls of each segment counted                        *)

\* process_audio_file(file, output, 1, 1) of `recognize <file>` at its call
\* of asyncio.run(_recognize_segments(...)): the n artifacts are exported,
\* listed and sorted, and the TrackSet is empty
InitRecognize ==
    /\ pc = "rs_init"
    /\ command = "recognize"
    /\ url_or_file = [kind |-> "path"]
    /\ downloader_calls = 0
    /\ must_reject = FALSE
    /\ audio_len = 0
    /\ window = SEGMENT_LENGTH
    /\ segments = << >>
    /\ exit_status = None
    /\ sink = << Line("===== Recognition Results ======", 0), Line("", 0),
                 Line(HeaderText(1), 1) >>
    /\ mp3_files = << 1 >>
    /\ file_index = 1
    /\ tmp_dirs = {1}
    /\ \E n \in 0..MaxSegments :
         /\ tmp_dir_files = 1..n
         /\ tmp_files = [ i \in 1..n |-> i ]
         /\ total_segments = n
         /\ futures = [ i \in 1..n |-> "done" ]
         /\ listing = [ i \in 1..n |-> ArtifactName(i) ]
         /\ slices_decoded = n
         /\ service_calls = [ i \in 1..n |-> 0 ]
    /\ idx = 0
    /\ unique_tracks = << >>
    /\ seen_tracks = {}
    /\ max_retries = DefaultMaxRetries
    /\ attempt = 0
    /\ data = NoValue
    /\ gn_result = NoValue
    /\ calls = 0
    /\ attempt_log = << >>
    /\ in_flight = {}
    /\ last_called = 0
    /\ recognized = << >>
    /\ write_failed = {}
    /\ io_errors = 0
    /\ tracklists = << >>
    /\ waiting_on = 0
    /\ artifacts = << >>
    /\ decode_failed = {}
    /\ export_failed = {}
    /\ invoked = << InvocationArgs(<< 1 >>, 1) >>
    /\ backoffs = << >>
    /\ pacing_delays = 0
    /\ progress = << >>
    /\ caught = FALSE

NextRecognize ==
    \/ RecognizeStart
    \/ RecognizeLoop
    \/ GetNameCall
    \/ GetNameResume
    \/ GetNameBackoff
    \/ RecordResult
    \/ PacingDelay

\* the event loop runs the coroutine whenever it can go on (Shazam(), the
\* loop head, the sending of a call, the code after get_name); a call of
\* the service eventually returns or raises; a sleep eventually elapses
FairRecognize ==
    /\ WF_vars(RecognizeStart)
    /\ WF_vars(RecognizeLoop)
    /\ WF_vars(GetNameCall)
    /\ WF_vars(RecordResult)
    /\ WF_vars(GetNameResume)
    /\ WF_vars(GetNameBackoff)
    /\ WF_vars(PacingDelay)

SpecRecognize == InitRecognize /\ [][NextRecognize]_vars /\ FairRecognize

----------------------------------------------------------------------------
(* Properties *)

Range(q) == { q[i] : i \in DOMAIN q }

\* index of the first call whose outcome identified a track, 0 if none did
FirstIdentified(log) ==
    IF \E i \in DOMAIN log : log[i]
    THEN CHOOSE i \in DOMAIN log : log[i] /\ \A j \in 1..(i - 1) : ~log[j]
    ELSE 0

\* C1: get_name makes exactly max_retries service calls and returns
\* "Not found" when no attempt identifies a track; when the first attempt to
\* identify one is attempt k it makes exactly k calls, returns a track, and
\* no call follows the success.  Checked for max_retries in 1..MaxRetries.
C1_ExactAttempts ==
    /\ calls <= max_retries
    /\ \A i \in DOMAIN attempt_log :
         attempt_log[i] => i = Len(attempt_log) /\ pc = "gn_return"
    /\ pc = "gn_return" =>
         /\ calls = Len(attempt_log)
         /\ IF FirstIdentified(attempt_log) = 0
            THEN /\ calls = max_retries
                 /\ gn_result = [kind |-> "value", value |-> NotFound]
            ELSE /\ calls = FirstIdentified(attempt_log)
                 /\ gn_result.kind = "value"
                 /\ gn_result.value # NotFound

\* get_name with max_retries = 4 has returned a track on its third call
C1_Witness ==
    /\ pc = "gn_return"
    /\ max_retries = 4
    /\ calls = 3
    /\ attempt_log = << FALSE, FALSE, TRUE >>
    /\ gn_result.kind = "value"
    /\ gn_result.value # NotFound

\* C2: whatever the service does on each attempt, get_name ends by returning
\* a value, never by raising: "<subtitle> - <title>" of the payload that
\* identified a track ("Joni - Blue" for title Blue, subtitle Joni), and the
\* sentinel "Not found" when the last outcome was a payload without a track,
\* a malformed track or an exception.
C2_NeverRaises ==
    pc = "gn_return" =>
        /\ gn_result.kind = "value"
        /\ IF Identified(data)
           THEN /\ gn_result.value =
                     data.data.track.subtitle \o " - " \o data.data.track.title
                /\ data.data.track = [title |-> "Blue", subtitle |-> "Joni"]
                     => gn_result.value = "Joni - Blue"
           ELSE gn_result.value = NotFound

\* get_name returns "Not found" after a last attempt that hit the malformed
\* payload
C2_Witness ==
    /\ pc = "gn_return"
    /\ calls = max_retries
    /\ max_retries = 2
    /\ data = [kind |-> "return", data |-> [track |-> [subtitle |-> "Joni"]]]
    /\ gn_result = [kind |-> "value", value |-> NotFound]

RECURSIVE FirstOccurrences(_)
\* the distinct elements of q, each at the place of its first occurrence
FirstOccurrences(q) ==
    IF q = << >> THEN << >>
    ELSE LET r == FirstOccurrences(SubSeq(q, 1, Len(q) - 1))
             x == q[Len(q)]
         IN IF x \in Range(r) THEN r ELSE Append(r, x)

\* C3: the TrackSet holds no string twice and never the sentinel, lists the
\* distinct recognized strings in the order of their first recognition, and
\* seen_tracks holds exactly its elements.
C3_TrackSet ==
    /\ \A i, j \in DOMAIN unique_tracks :
         i # j => unique_tracks[i] # unique_tracks[j]
    /\ \A i \in DOMAIN unique_tracks : unique_tracks[i] # NotFound
    /\ unique_tracks = FirstOccurrences(recognized)
    /\ seen_tracks = Range(unique_tracks)

\* a track recognized in segments 1 and 3 stays once, before the track of
\* segment 2
C3_Witness ==
    /\ recognized = << "A - B", "Joni - Blue", "A - B" >>
    /\ unique_tracks = << "A - B", "Joni - Blue" >>

\* C4: segments are dispatched in increasing order and one at a time: at
\* most one service call is awaited, it is the current segment's, and no
\* call is awaited when a call is sent; the first call of a segment comes
\* after every call of the segments before it, which all have lower numbers.
C4_Sequential ==
    /\ Cardinality(in_flight) <= 1
    /\ in_flight # {} => pc = "gn_await" /\ in_flight = { tmp_files[idx] }
    /\ pc = "gn_call" =>
         /\ in_flight = {}
         /\ calls = 0 => last_called < tmp_files[idx]
         /\ calls > 0 => last_called = tmp_files[idx]
    /\ pc \in {"rs_loop", "rs_pace", "gn_return", "gn_sleep"} => in_flight = {}
    /\ \A i, j \in DOMAIN tmp_files : i < j => tmp_files[i] < tmp_files[j]

\* the second call for segment 2 is awaited, after the calls for segment 1
C4_Witness ==
    /\ pc = "gn_await"
    /\ idx = 2
    /\ attempt = 1
    /\ in_flight = { 2 }

----------------------------------------------------------------------------
(* Reading the output file back *)

\* the header lines a batch can write
HeaderTexts == { HeaderText(f) : f \in 1..MaxFiles }

IsTrackText(t) == t # ""

\* the track lines of file f, as read from the output file: the lines that
\* are not empty between the header of f and the next header (or the end)
TrackLinesOf(file, f) ==
    LET header == HeaderText(f)
        hs == { i \in DOMAIN file : file[i].text = header } IN
    IF hs = {} THEN << >>
    ELSE LET h == CHOOSE i \in hs : TRUE
             later == { i \in (h + 1)..Len(file) : file[i].text \in HeaderTexts }
             n == IF later = {} THEN Len(file) + 1
                  ELSE CHOOSE i \in later : \A j \in later : i <= j
         IN SelectSeq([ i \in 1..(n - h - 1) |-> file[h + i].text ], IsTrackText)

\* positions at which process_audio_file has written its header and has not
\* yet returned
AfterHeader ==
    { "paf_tmpdir", "paf_segment", "paf_list", "paf_sort", "rs_init", "rs_loop", "gn_call",
      "gn_await", "gn_sleep", "gn_return", "rs_pace", "paf_cleanup",
      "paf_blank", "paf_summary" }

\* C5: while no write of a file has failed, the track lines after its
\* header in the output file are, at every step, the TrackSet in the same
\* order; and the track lines of every finished file are its logged summary.
C5_Incremental ==
    /\ (pc \in AfterHeader /\ file_index \notin write_failed)
         => TrackLinesOf(sink, file_index) = unique_tracks
    /\ \A f \in DOMAIN tracklists :
         f \notin write_failed => TrackLinesOf(sink, f) = tracklists[f]

\* the second file has a track on disk before its second segment is sent
C5_Witness ==
    /\ pc = "gn_call"
    /\ file_index = 2
    /\ idx = 2
    /\ write_failed = {}
    /\ io_errors = 0
    /\ Len(unique_tracks) = 1
    /\ 1 \in DOMAIN tracklists
    /\ Len(tracklists[1]) = 1

\* C6: no line of the output file is "Not found"; a file all of whose
\* segments came back "Not found" has an empty TrackSet and leaves just its
\* header and the blank line.
C6_NoSentinel ==
    /\ \A i \in DOMAIN sink : sink[i].text # NotFound
    /\ (pc = "paf_summary" /\ recognized = << >>) => unique_tracks = << >>
    /\ (pc = "paf_summary" /\ recognized = << >> /\ file_index \notin write_failed)
         => /\ Len(sink) >= 2
            /\ sink[Len(sink) - 1].text = HeaderText(file_index)
            /\ sink[Len(sink)].text = ""

\* three segments, all "Not found", and the blank line is written
C6_Witness ==
    /\ pc = "paf_summary"
    /\ total_segments = 3
    /\ idx = 3
    /\ recognized = << >>
    /\ file_index \notin write_failed
    /\ sink[Len(sink) - 1].text = HeaderText(file_index)

IsPrefix(p, q) ==
    /\ Len(p) <= Len(q)
    /\ \A i \in DOMAIN p : p[i] = q[i]

\* the lines file f wrote, in file order
LinesBy(file, f) ==
    LET wrote(l) == l.by = f IN SelectSeq(file, wrote)

Texts(q) == [ i \in DOMAIN q |-> q[i].text ]

\* the lines of the files are in file order (each line is followed by a line
\* of the same or a later file); within a file the header is first and the
\* blank line last
BlocksOrdered ==
    \A i \in 1..(Len(sink) - 1) :
        /\ sink[i].by <= sink[i + 1].by
        /\ (sink[i].by = sink[i + 1].by /\ sink[i].by > 0) =>
             /\ sink[i + 1].text # HeaderText(sink[i].by)
             /\ sink[i].text # ""

\* a finished file whose writes all succeeded left header, tracks, blank
BlocksComplete ==
    \A f \in DOMAIN tracklists :
        f \notin write_failed =>
          Texts(LinesBy(sink, f)) = << HeaderText(f) >> \o tracklists[f] \o << "" >>

\* C7: in the shared output file each file's lines form one block, in batch
\* order: header, then its track lines, then its blank line, all before the
\* next file's header; and from the first process_audio_file on the file is
\* only appended to.
C7_Blocks ==
    /\ [](BlocksOrdered /\ BlocksComplete)
    /\ [][file_index > 0 => IsPrefix(sink, sink')]_vars

\* the second file of a batch has written a track after the first file's
\* complete block
C7_Witness ==
    /\ file_index = 2
    /\ pc = "paf_summary"
    /\ write_failed = {}
    /\ io_errors = 0
    /\ Len(unique_tracks) = 2
    /\ 1 \in DOMAIN tracklists
    /\ Len(tracklists[1]) = 1
    /\ Len(sink) = 9

----------------------------------------------------------------------------
(* Properties of the windower, the scratch directory and the URL check *)

CeilDiv(a, b) == (a + b - 1) \div b

Duration(sl) == sl.stop - sl.start

\* C8: a buffer of D ms and a window of W ms give ceil(D / W) slices, the
\* i-th starting at (i - 1) * W; all but the last last W ms, the last lasts
\* D mod W if that is not 0 and W otherwise; 150 000 / 60 000 gives
\* 60 000, 60 000, 30 000.
C8_Segmentation ==
    pc = "seg_done" =>
        LET N == Len(segments) IN
        /\ N = CeilDiv(audio_len, window)
        /\ \A i \in 1..N : segments[i].start = (i - 1) * window
        /\ \A i \in 1..(N - 1) : Duration(segments[i]) = window
        /\ N > 0 => Duration(segments[N]) =
                      IF audio_len % window # 0 THEN audio_len % window ELSE window
        /\ (audio_len = 150000 /\ window = 60000) =>
             [ i \in 1..N |-> Duration(segments[i]) ] = << 60000, 60000, 30000 >>

\* the 150 000 ms buffer has been cut into three slices
C8_Witness ==
    /\ pc = "seg_done"
    /\ audio_len = 150000
    /\ window = 60000
    /\ Len(segments) = 3
    /\ Duration(segments[3]) = 30000

\* positions of process_audio_file inside its with block
InWithBlock ==
    { "paf_segment", "paf_list", "paf_sort", "rs_init", "rs_loop", "gn_call", "gn_await",
      "gn_sleep", "gn_return", "rs_pace", "paf_cleanup" }

\* C9: the scratch directory of the current file exists during all of its
\* segmentation and recognition, and no scratch directory exists anywhere
\* else: not after the with block ended, normally or by an exception, and
\* not when the next file starts.
C9_ScratchDir ==
    /\ pc \in InWithBlock => tmp_dirs = { file_index }
    /\ pc \notin InWithBlock => tmp_dirs = {}

\* the scan ended by an exception raised in the recognition run of its
\* second file, after two segments were listed
C9_Witness ==
    /\ pc = "exit"
    /\ command = "scan"
    /\ exit_status = 1
    /\ file_index = 2
    /\ total_segments = 2
    /\ tmp_dirs = {}

\* C10: a URL that is not allowed, given to download or to the URL branch of
\* recognize, is rejected before anything else happens: no downloader call,
\* no file handed to process_audio_file, no output file written, and the
\* process ends with status 1.
C10_UrlRejected ==
    must_reject =>
        /\ downloader_calls = 0
        /\ file_index = 0
        /\ mp3_files = << >>
        /\ sink \in { << >>, << StaleLine >> }
        /\ pc \in {"main", "dl_download", "rec_validate", "exit"}
        /\ pc = "exit" => exit_status = 1

\* recognize https://example.com/... has ended with status 1
C10_Witness ==
    /\ must_reject
    /\ command = "recognize"
    /\ url_or_file = [kind |-> "url", scheme |-> "https", host |-> "example.com"]
    /\ pc = "exit"
    /\ exit_status = 1

----------------------------------------------------------------------------
(* Properties of the error paths and of the batch driver *)

\* positions of process_audio_file at which a step that follows the call of
\* segment_audio has run: the listing, the recognition run, the blank line
RemainingStepsRun ==
    { "paf_sort", "rs_init", "rs_loop", "paf_cleanup", "paf_blank", "paf_summary" }

\* positions at which process_audio_file has returned to its caller
Returned == { "pd_loop", "dl_loop", "rec_done" }

\* C11 as stated: once the decoding of a file has failed, none of the
\* remaining steps of process_audio_file is run for that file.
C11_PipelineAborted ==
    file_index \in decode_failed => pc \notin RemainingStepsRun

\* C11: when the decoding of a file fails, segment_audio logs it and returns:
\* no segment is materialized, listed or recognized, no service call is made
\* and no track is recorded for that file; process_audio_file goes on over
\* zero segments, writes the header and the blank line, logs an empty
\* summary and returns; and a batch that ends normally has invoked
\* process_audio_file for every file, the later ones included.
C11_DecodeFailure ==
    /\ file_index \in decode_failed =>
         /\ tmp_dir_files = {}
         /\ listing = << >>
         /\ tmp_files = << >>
         /\ total_segments = 0
         /\ pc \notin {"gn_call", "gn_await", "gn_sleep", "gn_return", "rs_pace"}
         /\ calls = 0
         /\ last_called = 0
         /\ in_flight = {}
         /\ recognized = << >>
         /\ unique_tracks = << >>
         /\ progress = << >>
         /\ pc \in Returned =>
              /\ file_index \in DOMAIN tracklists
              /\ tracklists[file_index] = << >>
              /\ file_index \notin write_failed =>
                   Texts(LinesBy(sink, file_index)) = << HeaderText(file_index), "" >>
    /\ (pc = "exit" /\ exit_status = 0 /\ decode_failed # {}) =>
         Len(invoked) = Len(mp3_files)

\* the second file of a batch is being recognized after the decoding of the
\* first file failed and the first file's empty summary was logged
C11_Witness ==
    /\ decode_failed = {1}
    /\ file_index = 2
    /\ pc = "gn_await"
    /\ 1 \in DOMAIN tracklists
    /\ tracklists[1] = << >>
    /\ Texts(LinesBy(sink, 1)) = << HeaderText(1), "" >>

\* the header of file f could not be written
HeaderFailed(f) ==
    /\ f \in write_failed
    /\ \A i \in DOMAIN sink : sink[i] # Line(HeaderText(f), f)

\* C12 as stated: a file during which a write to the output file failed is
\* still segmented and recognized, up to its summary.
C12_NeverAborts ==
    (pc \in Returned /\ file_index \in write_failed) =>
        file_index \in DOMAIN tracklists

\* C12: a failure writing a track line or the blank line does not abort the
\* file: every listed segment is still handed to recognition, the TrackSet
\* still holds the first occurrence of every track returned, and the summary
\* is logged.  A failure writing the header is logged and process_audio_file
\* returns at once: that file gets no scratch directory, no segmentation, no
\* recognition and no summary.  In both cases a batch that ends normally has
\* invoked process_audio_file for every file.
C12_WriteFailure ==
    /\ \A f \in write_failed :
         HeaderFailed(f) =>
            /\ f \notin DOMAIN tracklists
            /\ LinesBy(sink, f) = << >>
            /\ f = file_index =>
                 /\ pc \in Returned \cup {"exit"}
                 /\ tmp_dirs = {}
                 /\ export_failed = {}
                 /\ progress = << >>
                 /\ calls = 0
    /\ pc \in {"paf_cleanup", "paf_blank", "paf_summary"} =>
         /\ idx = total_segments
         /\ Len(progress) = total_segments
    /\ pc \in AfterHeader => unique_tracks = FirstOccurrences(recognized)
    /\ (pc \in Returned /\ file_index > 0 /\ ~HeaderFailed(file_index)) =>
         file_index \in DOMAIN tracklists
    /\ (pc = "exit" /\ exit_status = 0 /\ write_failed # {}) =>
         Len(invoked) = Len(mp3_files)

\* the second file of a batch is being recognized after the first file
\* recorded two tracks of which only one reached the output file
C12_Witness ==
    /\ file_index = 2
    /\ pc = "gn_await"
    /\ write_failed = {1}
    /\ ~HeaderFailed(1)
    /\ 1 \in DOMAIN tracklists
    /\ Len(tracklists[1]) = 2
    /\ Len(TrackLinesOf(sink, 1)) = 1

\* C13 as stated: a run that finds no candidate file has written nothing to
\* the output file when it ends.
C13_EmptySetWritesNothing ==
    (pc = "exit" /\ exit_status = 0 /\ mp3_files = << >>
       /\ command \in {"scan", "download"})
      => sink \in { << >>, << StaleLine >> }

\* C13: process_downloads and the loop of the download command call
\* process_audio_file once per listed file, in listing order, with the index
\* 1, 2, ... and the same total, and a loop that ends has called it for
\* every file.  When the listing is empty the run ends at once with status
\* 0, with no call and nothing written from then on: process_downloads has
\* not opened the output file at that point and leaves it as it was, while
\* the download command has rewritten it with its banner before it lists.
\* Nothing runs after the exit.
C13_InvocationsInOrder ==
    /\ Len(invoked) = file_index
    /\ \A i \in DOMAIN invoked :
         invoked[i] = [ file |-> mp3_files[i], index |-> i, total |-> Len(mp3_files) ]
    /\ (pc = "exit" /\ exit_status = 0 /\ file_index > 0) =>
         file_index = Len(mp3_files)
    /\ (command = "scan" /\ pc = "exit" /\ mp3_files = << >>) =>
         /\ exit_status = 0
         /\ sink \in { << >>, << StaleLine >> }
    /\ (command = "download" /\ pc = "exit" /\ exit_status = 0
          /\ mp3_files = << >>) =>
         sink = << Line("===== Download Results ======", 0), Line("", 0) >>
C13_BatchDriver ==
    /\ [] C13_InvocationsInOrder
    /\ [][ (pc \in {"pd_list", "dl_list"} /\ mp3_files' = << >>) =>
             /\ pc' = "exit"
             /\ exit_status' = 0
             /\ sink' = sink
             /\ invoked' = << >> ]_vars
    /\ [][ pc # "exit" ]_vars

\* a download run that found no file has ended normally without a call,
\* its banner in the output file
C13_Witness ==
    /\ pc = "exit"
    /\ command = "download"
    /\ exit_status = 0
    /\ mp3_files = << >>
    /\ invoked = << >>
    /\ Len(sink) = 2

----------------------------------------------------------------------------
(* Properties of the sequencer's delays and progress lines *)

\* C14 as stated: one pacing sleep has elapsed after each earlier segment
\* when the first call for a segment is made, whatever those segments came
\* to, and a run over N segments ends after N - 1 pacing sleeps.
C14_PacingAfterEverySegment ==
    /\ (pc = "gn_call" /\ calls = 0) => pacing_delays = idx - 1
    /\ (pc = "paf_cleanup" /\ total_segments > 0) =>
         pacing_delays = total_segments - 1

\* the listed artifacts numbered up to a
ListedUpTo(a) == { tmp_files[j] : j \in { k \in DOMAIN tmp_files : tmp_files[k] <= a } }

\* C15 as stated: the index of every progress line is the number in the
\* name of the artifact the line is about.
C15_IndexIsArtifactNumber ==
    \A i \in DOMAIN progress : progress[i].index = progress[i].segment

\* C15: one progress line per segment handed to the sequencer, logged when
\* get_name has returned and before the TrackSet and the output file are
\* touched, so also for a segment whose processing then raises; the lines
\* come in the order of the list; the index of a line is the 1-based
\* position of its segment in the sorted list and the total is the length
\* of that list.  The index is the number in the artifact's name exactly
\* when no artifact with a lower number is absent from the list.
C15_ProgressLines ==
    /\ \A i \in DOMAIN progress :
         /\ progress[i].index = i
         /\ progress[i].total = Len(tmp_files)
         /\ progress[i].segment = tmp_files[i]
         /\ progress[i].index = Cardinality(ListedUpTo(progress[i].segment))
    /\ pc \in {"gn_call", "gn_await", "gn_sleep", "gn_return"} =>
         Len(progress) = idx - 1
    /\ pc \in {"rs_pace", "rs_loop"} => Len(progress) = idx
    /\ pc \in {"paf_cleanup", "paf_blank", "paf_summary"} =>
         Len(progress) = total_segments
    /\ caught => Len(progress) = idx

\* of three slices the first was not exported: the lines of artifacts 2 and
\* 3 were logged as 1/2 and 2/2
C15_Witness ==
    /\ pc = "paf_cleanup"
    /\ export_failed = {1}
    /\ tmp_files = << 2, 3 >>
    /\ progress = << [index |-> 1, total |-> 2, segment |-> 2],
                     [index |-> 2, total |-> 2, segment |-> 3] >>

\* C16 as stated: the step in which the except of the loop body catches an
\* exception leaves the TrackSet and the output file as they were.
C16_ExceptionLeavesTrackSet ==
    [][ (pc = "gn_return" /\ caught') =>
          /\ unique_tracks' = unique_tracks
          /\ seen_tracks' = seen_tracks
          /\ sink' = sink ]_vars

\* C17: get_name sleeps once between two consecutive attempts and nowhere
\* else: the number of sleeps is the number of calls made less one once a
\* call is out, every sleep lasts 2, and a get_name that returns after a
\* calls has slept a - 1 times.
C17_Backoff ==
    /\ Len(backoffs) = attempt
    /\ pc = "gn_call" => calls = Len(backoffs)
    /\ pc \in {"gn_await", "gn_sleep", "gn_return"} => calls = Len(backoffs) + 1
    /\ \A i \in DOMAIN backoffs : backoffs[i] = 2

\* get_name with max_retries = 5 has returned after three calls and two
\* sleeps
C17_Witness ==
    /\ pc = "gn_return"
    /\ max_retries = 5
    /\ calls = 3
    /\ backoffs = << 2, 2 >>

----------------------------------------------------------------------------
(* Properties of the export pool and of the sorted listing *)

\* an export task is still new, queued or running
ExportOutstanding ==
    \E i \in DOMAIN futures : futures[i] \in {"new", "pending", "running"}

\* positions at which segment_audio has returned
SegmentAudioReturned ==
    { "paf_list", "paf_sort", "rs_init", "rs_loop", "gn_call", "gn_await",
      "paf_cleanup", "exit" }

\* C18: at most 4 exports run at a time, and in every interleaving of the
\* workers segment_audio returns, the directory is listed and the first
\* service call is made only when no export task is new, queued or running:
\* each has completed or raised.  That holds when an export raised, too; the
\* directory then holds the artifacts of the tasks that completed and
\* nothing else but what the tasks that raised left behind.
C18_ExportBarrier ==
    /\ Cardinality({ i \in DOMAIN futures : futures[i] = "running" }) <= 4
    /\ pc \in SegmentAudioReturned => ~ExportOutstanding
    /\ (calls > 0 \/ in_flight # {} \/ listing # << >> \/ tmp_files # << >>)
         => ~ExportOutstanding
    /\ (pc \in SegmentAudioReturned /\ pc # "exit") =>
         /\ tmp_dir_files \ export_failed
              = { i \in DOMAIN futures : futures[i] = "done" }
         /\ export_failed = { i \in DOMAIN futures : futures[i] = "raised" }

\* six exports over four workers, the second of which raised, have all ended
\* and the first service call is out
C18_Witness ==
    /\ pc = "gn_await"
    /\ calls = 1
    /\ Len(futures) = 6
    /\ export_failed = {2}
    /\ tmp_dir_files = {1, 3, 4, 5, 6}

\* the artifacts whose export did not raise
NotFailed == { i \in DOMAIN futures : i \notin export_failed }

\* positions between the return of segment_audio and the removal of the
\* scratch directory, and those at which the sorted list exists
DirectoryFilled ==
    { "paf_list", "paf_sort", "rs_init", "rs_loop", "gn_call", "gn_await",
      "gn_sleep", "gn_return", "rs_pace", "paf_cleanup" }
SegmentsListed ==
    { "rs_init", "rs_loop", "gn_call", "gn_await", "gn_sleep", "gn_return",
      "rs_pace", "paf_cleanup", "paf_blank", "paf_summary" }

\* C19 as stated: the segment whose export raised is absent from
\* recognition, so the list handed to the sequencer is the segments whose
\* export did not raise.
C19_FailedSegmentAbsent ==
    pc \in SegmentsListed => Range(tmp_files) = NotFailed

\* C19: when the export of a segment raises, segment_audio logs it and
\* returns after the other exports have ended: every other segment is in the
\* directory under its own number and in the sorted list, and each listed
\* segment is handed to recognition in that order; the file reaches its
\* summary and the batch its next file.  The segment whose export raised is
\* in the list exactly when the export left a file of its name behind: it
\* is then sent to recognition like the others, else it is absent.
C19_Siblings ==
    /\ pc \in DirectoryFilled =>
         /\ NotFailed \subseteq tmp_dir_files
         /\ tmp_dir_files \subseteq DOMAIN futures
    /\ pc \in SegmentsListed =>
         /\ NotFailed \subseteq Range(tmp_files)
         /\ Range(tmp_files) \subseteq DOMAIN futures
         /\ Len(tmp_files) = Cardinality(Range(tmp_files))
    /\ pc \in (DirectoryFilled \cap SegmentsListed) =>
         Range(tmp_files) = tmp_dir_files
    /\ pc \in {"paf_cleanup", "paf_blank", "paf_summary"}
         => { progress[i].segment : i \in DOMAIN progress } = Range(tmp_files)
    /\ pc \in {"gn_call", "gn_await", "gn_sleep", "gn_return"}
         => tmp_files[idx] \in tmp_dir_files
C19_ExportFailure ==
    /\ [] C19_Siblings
    /\ [][ (export_failed # {} /\ pc = "paf_summary") => pc' \in Returned ]_vars
    /\ [][ (pc \in {"pd_loop", "dl_loop"} /\ file_index < Len(mp3_files)) =>
             (pc' = "paf_header" /\ file_index' = file_index + 1) ]_vars

\* the first file of a batch of two reaches its summary after the export of
\* its second segment of three raised and left a file: segments 1, 2 and 3
\* were sent to recognition
C19_Witness ==
    /\ pc = "paf_summary"
    /\ file_index = 1
    /\ Len(mp3_files) = 2
    /\ Len(futures) = 3
    /\ export_failed = {2}
    /\ tmp_files = << 1, 2, 3 >>
    /\ Len(progress) = 3

\* C20: when every export of a buffer of N slices has completed, whatever
\* the order the workers ended in and whatever the order os.listdir returns,
\* the list handed to the sequencer is the artifacts 1..N in numeric order
\* (2 before 10, unlike the order of the names); in every case the list is
\* in increasing numeric order and artifact i holds the i-th slice, the one
\* that starts at (i - 1) * SEGMENT_LENGTH.
C20_NumericOrder ==
    /\ \A i \in DOMAIN artifacts :
         /\ artifacts[i].start = (i - 1) * 60000
         /\ artifacts[i].stop = IF i * 60000 < audio_len THEN i * 60000 ELSE audio_len
    /\ pc \in {"rs_init", "rs_loop", "gn_call", "gn_await", "paf_cleanup"} =>
         /\ \A i, j \in DOMAIN tmp_files : i < j => tmp_files[i] < tmp_files[j]
         /\ (export_failed = {} /\ file_index \notin decode_failed) =>
              tmp_files = [ i \in 1..Len(segments) |-> i ]
    /\ pc = "rs_init" =>
         /\ Len(listing) = Len(tmp_files)
         /\ { listing[i] : i \in DOMAIN listing }
              = { ToString(tmp_files[i]) \o ".mp3" : i \in DOMAIN tmp_files }

\* ten artifacts listed in the order of their names, 10.mp3 before 2.mp3,
\* have been sorted into 1..10
C20_Witness ==
    /\ pc = "rs_init"
    /\ export_failed = {}
    /\ Len(artifacts) = 10
    /\ listing[2] = "10.mp3"
    /\ listing[3] = "2.mp3"
    /\ tmp_files = << 1, 2, 3, 4, 5, 6, 7, 8, 9, 10 >>

----------------------------------------------------------------------------
(* Termination and the number of service calls *)

\* _recognize_segments has returned, or has been left by an exception
RecognitionEnded == pc \in {"paf_cleanup", "exit"}

RECURSIVE TotalCalls(_)
\* the sum of the counts of a list
TotalCalls(count) ==
    IF count = << >> THEN 0
    ELSE count[Len(count)] + TotalCalls(SubSeq(count, 1, Len(count) - 1))

\* at every step no segment has had more than 3 service calls and the file
\* no more than 3 N; a segment not yet handed to get_name has had none, and
\* one handed over and done with has had at least one
C21_CallBounds ==
    /\ \A i \in DOMAIN service_calls :
         /\ service_calls[i] <= 3
         /\ i > idx => service_calls[i] = 0
         /\ (i < idx \/ (i = idx /\ pc \in {"rs_loop", "rs_pace", "paf_cleanup"}))
              => service_calls[i] >= 1
    /\ TotalCalls(service_calls) <= 3 * Len(tmp_files)
    /\ pc \in {"gn_call", "gn_await", "gn_sleep", "gn_return"} =>
         service_calls[idx] = calls

\* C21: for every list of N segments, whatever each call of the service
\* returns or raises, as long as it ends: the recognition of the file ends
\* (the loop returns or an exception leaves it), and nothing runs for it
\* after that; by then and at every step before it has made at most 3 N
\* service calls, at most 3 of them for any one segment.
C21_Termination ==
    /\ [] C21_CallBounds
    /\ <> RecognitionEnded
    /\ [][ ~RecognitionEnded ]_vars

\* the recognition of three segments has returned after three calls for
\* each of them, the last of which identified a track
C21_Witness ==
    /\ pc = "paf_cleanup"
    /\ service_calls = << 3, 3, 3 >>
    /\ Len(unique_tracks) = 1
    /\ Len(progress) = 3

====
